---- MODULE Spec2Model ----
(***************************************************************************)
(* The video repost pipeline of chii (src/chii/utils/video_worker.py):     *)
(* VideoWorker owns an asyncio.Queue, the set active_urls and the list of  *)
(* worker tasks.  All coroutines run on one event loop, so an action of    *)
(* this model is the code a task runs between two suspension points        *)
(* (an await that really waits).                                           *)
(***************************************************************************)
EXTENDS Integers, Sequences, FiniteSets, TLC

\* ------------------------------------------------------------ bounds
\* worker_count and max_queue_size are parameters of VideoWorker.__init__;
\* the model checks the class for small values of them.
WorkerCount == 1
MaxQueueSize == 2
\* How many worker tasks the model lets start() create in total.
MaxTasks == 2
\* How many messages reach the listener.
MaxMessages == 3
\* How many different URLs the messages carry.
NumUrls == 3

\* How many Discord members can be linked, and how many channels there are.
NumUsers == 2
NumChannels == 2
\* The newest activity id the feed reaches, and the largest progress it reports.
MaxActivity == 3
MaxProgress == 1
\* How many update cycles are started in total.
MaxCycles == 3
\* How many reminders are set in total.
MaxReminders == 3

\* ------------------------------------------------------------ constants
\* Config.REPOSTS_MAX_SIZE_MB
REPOSTS_MAX_SIZE_MB == 7

URLS == 1..NumUrls
MESSAGES == 1..MaxMessages

\* max_bytes = Config.REPOSTS_MAX_SIZE_MB * 1024 * 1024
max_bytes == REPOSTS_MAX_SIZE_MB * 1024 * 1024

\* What ffprobe may print on stdout.
ProbeOutputs == {"N/A", "0.0", "30.0"}

\* What ffmpeg may leave at the output path: no file, or a file of this size.
NoFile == -1
TranscodeOutputs == {NoFile, max_bytes, max_bytes + 1}

NoJob == [message |-> 0, url |-> 0]

\* What a job has done on the chat platform so far: calls of message.delete(),
\* whether the original message is gone, calls of channel.send(), whether the
\* repost arrived.
NoChat == [deletes |-> 0, deleted |-> FALSE, sends |-> 0, sent |-> FALSE]

\* A worker loop: where it is suspended, its job, and _process_job's local
\* `compressed` (NoFile for None) and what it did on the chat platform.
IdleTask == [pc |-> "get", job |-> NoJob, compressed |-> NoFile, chat |-> NoChat]

VARIABLES
    queue,        \* self.queue: the jobs waiting, oldest first
    unfinished,   \* self.queue._unfinished_tasks: puts minus task_done calls
    active_urls,  \* self.active_urls
    tasks,        \* self.tasks: one record per worker loop, [pc, job, chat]
    cancel,       \* the tasks whose cancellation was requested and not yet delivered
    stopper,      \* the caller of stop(): "none", "gathering" or "returned"
    gathered,     \* how many tasks the running stop() awaits in gather
    typing,       \* the tasks holding their channel's typing indicator
    orphans,      \* executor calls whose awaiting coroutine was cancelled
    files,        \* the files in Config.REPOSTS_TEMP_DIR
    last,         \* what the last step logged: an enqueue call or the end of a job
    nextMsg,      \* the id of the next message
    ani,          \* AniListCog: the data file, the feed, the update cycles in flight
    rem           \* ReminderCog: self.reminders, self.tasks, the data file, the workers

vars == <<queue, unfinished, active_urls, tasks, cancel, stopper, gathered, typing,
          orphans, files, last, nextMsg, ani, rem>>

\* The state of the two cogs beside the repost pipeline.
cogVars == <<ani, rem>>
\* The state of the repost pipeline.
repostVars == <<queue, unfinished, active_urls, tasks, cancel, stopper, gathered, typing,
                orphans, files, last, nextMsg>>

pipeVars == <<queue, unfinished, active_urls, tasks>>
stopVars == <<cancel, stopper, gathered>>

Workers == 1..Len(tasks)

\* The steps that log neither an enqueue call nor the end of a job.
Quiet == [op |-> "step", worker |-> 0, message |-> 0, url |-> 0, how |-> "",
          suspended |-> FALSE, compressed |-> NoFile, chat |-> NoChat,
          author_bot |-> FALSE, watched |-> FALSE]

\* ------------------------------------------------------------ pure parts

QueueMaxsize_OffByOne == MaxQueueSize + 1
\* self.queue = asyncio.Queue(max_queue_size)
QueueMaxsize == MaxQueueSize

\* asyncio.Queue.full(): a queue built with maxsize <= 0 is never full.
QueueFull(q) ==
    IF QueueMaxsize <= 0 THEN FALSE ELSE Len(q) >= QueueMaxsize

EnqueueDecision_NoDedup(url, act, q) ==
    IF QueueFull(q) THEN "full" ELSE "admitted"
EnqueueDecision_NoFullCheck(url, act, q) ==
    IF url \in act THEN "duplicate" ELSE "admitted"
\* enqueue's two early returns, in the order the code takes them.
EnqueueDecision(url, act, q) ==
    IF url \in act THEN "duplicate"
    ELSE IF QueueFull(q) THEN "full"
    ELSE "admitted"

EnqueueActive_NeverAdds(url, act, q) == act
EnqueueActive_BeforeFullCheck(url, act, q) == act \cup {url}
\* self.active_urls after enqueue(url).
EnqueueActive(url, act, q) ==
    IF EnqueueDecision(url, act, q) = "admitted" THEN act \cup {url} ELSE act

\* await self.queue.put(job): put waits while the queue is full (the caller is
\* suspended and the job stays out of the queue), otherwise it appends at once
\* and counts one more unfinished item.
QueuePut(q, n, job) ==
    IF QueueFull(q)
        THEN [queue |-> q, unfinished |-> n, suspended |-> TRUE]
        ELSE [queue |-> Append(q, job), unfinished |-> n + 1, suspended |-> FALSE]

QueueGet_Peek(q) == [job |-> Head(q), queue |-> q]
QueueGet_Lifo(q) == [job |-> q[Len(q)], queue |-> SubSeq(q, 1, Len(q) - 1)]
\* job = await self.queue.get(), for a queue that is not empty: the oldest
\* job leaves the queue.
QueueGet(q) == [job |-> Head(q), queue |-> Tail(q)]

Discard_Forgotten(act, url) == act
\* self.active_urls.discard(job["url"])
Discard(act, url) == act \ {url}

TaskDone_Twice(n) == n - 2
\* self.queue.task_done()
TaskDone(n) == n - 1

Caught_Nothing(exc) == exc = "none"
\* try/except Exception around _process_job: does the loop go on after exc?
\* CancelledError is a BaseException and passes through.
Caught(exc) == exc \in {"none", "Exception"}

\* _download_video: the downloader leaves a file, raises, or returns without one.
DownloaderOutcomes == {"file", "error", "nofile"}
DownloadVideo(dl) ==
    IF dl = "file" THEN [created |-> TRUE, video |-> TRUE]
    ELSE [created |-> FALSE, video |-> FALSE]

\* float(result.stdout.strip())
ParseFloat(s) ==
    IF s = "30.0" THEN [ok |-> TRUE, value |-> 30]
    ELSE IF s = "0.0" THEN [ok |-> TRUE, value |-> 0]
    ELSE [ok |-> FALSE, value |-> 0]

\* int(((max_bytes * 8) / duration) / 1000), for duration > 0
Bitrate(duration) == ((max_bytes * 8) \div duration) \div 1000

CompressToLimit_NoSizeCheck(probe, out) ==
    LET d == ParseFloat(probe) IN
    IF ~d.ok \/ d.value = 0
        THEN [raises |-> TRUE, why |-> "probe_error", created |-> NoFile,
              compressed |-> NoFile, bitrate |-> 0]
        ELSE [raises |-> FALSE,
              why |-> IF out = NoFile THEN "compress_missing" ELSE "compressed",
              created |-> out,
              compressed |-> out,
              bitrate |-> Bitrate(d.value)]
\* _compress_to_limit: the probe's ValueError and the division's
\* ZeroDivisionError leave the function before ffmpeg runs; otherwise ffmpeg
\* leaves `out` and the function returns it unless it is missing or too large.
CompressToLimit(probe, out) ==
    LET d == ParseFloat(probe) IN
    IF ~d.ok \/ d.value = 0
        THEN [raises |-> TRUE, why |-> "probe_error", created |-> NoFile,
              compressed |-> NoFile, bitrate |-> 0]
        ELSE [raises |-> FALSE,
              why |-> IF out = NoFile THEN "compress_missing"
                      ELSE IF out > max_bytes THEN "compress_oversize"
                      ELSE "compressed",
              created |-> out,
              compressed |-> IF out = NoFile THEN NoFile
                             ELSE IF out > max_bytes THEN NoFile
                             ELSE out,
              bitrate |-> Bitrate(d.value)]

RawFile(m) == [kind |-> "raw", message |-> m, size |-> 0]
CompressedFile(m, size) == [kind |-> "compressed", message |-> m, size |-> size]

Abandoned_Never(compressed) == FALSE
\* if not compressed: return
Abandoned(compressed) == compressed = NoFile

FirstPublishStep_Send == "send"
\* The first await after the typing block: message.delete(), before send.
FirstPublishStep == "delete"

DeleteCaught_Propagates(ok) == ok
\* try/except Exception around message.delete(): does the job go on to send?
DeleteCaught(ok) == TRUE

UnlinkRaw_Skipped(fs, m) == fs
\* video.unlink(missing_ok=True)
UnlinkRaw(fs, m) == fs \ {RawFile(m)}

\* compressed.unlink(missing_ok=True)
UnlinkCompressed(fs, m, size) == fs \ {CompressedFile(m, size)}

AwaitingGet_Anywhere(t) == TRUE
\* The only place where the loop takes a job: its await self.queue.get().
AwaitingGet(t) == t.pc = "get"

InExecutor_Inline(pc) == FALSE
\* loop.run_in_executor(None, ...): the download and the compression run in a
\* thread of the default executor while their coroutine is suspended.
InExecutor(pc) == pc \in {"download", "compress"}

\* The event loop is free to run another coroutine: no task is inside a call
\* that runs on the loop's own thread.
LoopFree == \A w \in Workers :
                tasks[w].pc \in {"download", "compress"} => InExecutor(tasks[w].pc)

TypingExit_Kept(ty, w) == ty
\* Leaving the block of async with message.channel.typing(), by return, by an
\* exception or by cancellation.
TypingExit(ty, w) == ty \ {w}

\* ------------------------------------------------------------ cogs
\* A cog whose extension has not been loaded (main.py load_cogs).
NoCog == [setup |-> FALSE]

\* ------------------------------------------------------------ AniListCog data
\* src/chii/cogs/anilist_cog.py.  None is written 0.

Users == 1..NumUsers
Channels == 1..NumChannels

\* What a channel is to SimpleUtils.is_messageable, which the cogs call and
\* simple_utils.py does not define: a channel one can send to, or another
\* kind (a category, a forum).
ChannelKinds == {"messageable", "other"}
is_messageable(kind) == kind = "messageable"

\* Where a command is used, to SimpleUtils.is_guild_channel, which
\* reminder_set calls and simple_utils.py does not define.
Places == {"guild", "private"}
is_guild_channel(place) == place = "guild"

\* What extract_status makes of an activity's status: None ("Unsupported"),
\* a status with a colour in build_embed's status_color_map (COMPLETED stands
\* for COMPLETED, DROPPED and PAUSED), or another member of _Status.
Statuses == {"Unsupported", "Completed", "Watched"}

\* The newest ListActivity of a user as the API returns it: id, status and
\* progress (extract_progress; 0 is None).  NoActivity: the user has none.
NoActivity == [id |-> 0, status |-> "Unsupported", progress |-> 0]

\* A member without an entry in data["users"].
Unlinked == [linked |-> FALSE, synced |-> FALSE, last_activity_id |-> 0,
             last_message_id |-> 0, progress_cache |-> 0]
\* The entry anilist_link writes.  (The streak fields are left out: nothing
\* but update_streak and the embed text reads them.)
Linked == [linked |-> TRUE, synced |-> FALSE, last_activity_id |-> 0,
           last_message_id |-> 0, progress_cache |-> 0]

\* _load_data's default_data
default_data == [channel_id |-> 0, users |-> [u \in Users |-> Unlinked]]

\* The callers of run_update_cycle: the normal_updates loop and the
\* anilist_force command.  (Nothing in src/ starts debug_updates.)
Cyclers == {"normal", "force"}
OtherCycler(c) == IF c = "normal" THEN "force" ELSE "normal"

\* A run_update_cycle that is not running.  data and batch are its locals, at
\* is the user whose activity it is posting, sent[u] is the activity id it
\* posted for u in its current or latest run.
IdleCycle == [pc |-> "idle", data |-> default_data,
              batch |-> [u \in Users |-> NoActivity], at |-> 0,
              sent |-> [u \in Users |-> 0]]

\* file: the JSON file at ANILIST_DATA_PATH; feed: what the AniList API holds;
\* started: cycles begun so far; stopped: the normal_updates loop has ended;
\* loaded: the cog has not been unloaded;
\* overlap: the current or latest runs of the two cyclers overlapped in time.
AniStart == [setup |-> TRUE,
             file |-> default_data,
             feed |-> [u \in Users |-> NoActivity],
             cycles |-> [c \in Cyclers |-> IdleCycle],
             started |-> 0,
             stopped |-> FALSE,
             loaded |-> TRUE,
             overlap |-> FALSE]

\* is_real_progress: whether the activity counts, and user_data as it leaves
\* it (one media id, so progress_cache is one number).
is_real_progress(user_data, activity) ==
    LET old_progress == user_data.progress_cache IN
    IF activity.status = "Unsupported"
       THEN [real |-> FALSE, user_data |-> user_data]
    ELSE IF activity.progress = 0
       THEN [real |-> activity.status = "Completed", user_data |-> user_data]
    ELSE [real |-> (old_progress = 0) \/ (activity.progress > old_progress),
          user_data |-> [user_data EXCEPT !.progress_cache = activity.progress]]

\* build_embed up to its await: the description's first part evaluates
\* _Status.value, an attribute the Enum class does not have, whenever the
\* status has no colour and there is a numeric progress.
build_embed_raises(activity) ==
    activity.status # "Completed" /\ activity.progress # 0

\* process_activity up to its first await: "skip" (returns False), "post"
\* (goes on to fetch_user and send_update) or "raise", and user_data as it
\* leaves it.
process_activity(user_data, activity) ==
    LET last_seen == user_data.last_activity_id
        r == is_real_progress([user_data EXCEPT !.last_activity_id = activity.id],
                              activity)
    IN  IF ~user_data.synced
           THEN [how |-> "skip",
                 user_data |-> [user_data EXCEPT !.last_activity_id = activity.id,
                                                 !.synced = TRUE]]
        ELSE IF last_seen # 0 /\ activity.id <= last_seen
           THEN [how |-> "skip", user_data |-> user_data]
        ELSE IF ~r.real
           THEN [how |-> "skip", user_data |-> r.user_data]
        ELSE [how |-> IF build_embed_raises(activity) THEN "raise" ELSE "post",
              user_data |-> r.user_data]

\* The loop of run_update_cycle from user u on, up to the first activity that
\* suspends or raises (at is that user) or to the end of the batch (at is 0).
RECURSIVE RunLoop(_, _, _)
RunLoop(data, batch, u) ==
    IF u > NumUsers THEN [how |-> "done", data |-> data, at |-> 0]
    ELSE IF batch[u] = NoActivity
        THEN RunLoop(data, batch, u + 1)
    ELSE LET r == process_activity(data.users[u], batch[u])
             d == [data EXCEPT !.users[u] = r.user_data]
         IN  IF r.how = "skip" THEN RunLoop(d, batch, u + 1)
             ELSE [how |-> r.how, data |-> d, at |-> u]

\* ------------------------------------------------------------ ReminderCog data
\* src/chii/cogs/reminder_cog.py

ReminderIds == 1..MaxReminders

\* reminders: the keys of self.reminders; tasks: the keys of self.tasks;
\* file: the ids in the JSON file at REMINDERS_DATA_PATH; pc[r]: where the
\* worker task of reminder r is ("none" before it is created); made: how many
\* reminders have been set; loaded: the cog has not been unloaded.
RemStart == [setup |-> TRUE, reminders |-> {}, tasks |-> {}, file |-> {},
             pc |-> [r \in ReminderIds |-> "none"], made |-> 0,
             loaded |-> TRUE]

\* ------------------------------------------------------------ initial state

Init ==
    /\ queue = <<>>
    /\ unfinished = 0
    /\ active_urls = {}
    /\ tasks = <<>>
    /\ cancel = {}
    /\ stopper = "none"
    /\ gathered = 0
    /\ typing = {}
    /\ orphans = {}
    /\ files = {}
    /\ last = Quiet
    /\ nextMsg = 1
    /\ ani = NoCog
    /\ rem = NoCog

\* ------------------------------------------------------------ enqueue

\* self.url_regex.search(message.content) found nothing.
NoMatch == 0
\* What the pattern may find in a message: nothing, or a URL.
Matches == URLS \cup {NoMatch}

Filter_NoBotCheck(author_bot, match, watched) ==
    IF match = NoMatch THEN "no_match"
    ELSE IF ~watched THEN "not_watched"
    ELSE "enqueue"
\* on_message's three early returns, in the order the code takes them.
Filter(author_bot, match, watched) ==
    IF author_bot THEN "bot"
    ELSE IF match = NoMatch THEN "no_match"
    ELSE IF ~watched THEN "not_watched"
    ELSE "enqueue"

\* await video_worker.enqueue({"message": message, "url": url}) for a message
\* of the given author in a channel that is watched or not.  The whole
\* coroutine runs in one step unless put has to wait.
EnqueueOf(author_bot, url, watched) ==
    LET job == [message |-> nextMsg, url |-> url]
        d == EnqueueDecision(url, active_urls, queue)
        p == QueuePut(queue, unfinished, job)
    IN  /\ nextMsg <= MaxMessages
        /\ LoopFree
        /\ nextMsg' = nextMsg + 1
        /\ active_urls' = EnqueueActive(url, active_urls, queue)
        /\ queue' = IF d = "admitted" THEN p.queue ELSE queue
        /\ unfinished' = IF d = "admitted" THEN p.unfinished ELSE unfinished
        /\ last' = [Quiet EXCEPT !.op = "enqueue", !.message = nextMsg, !.url = url,
                                 !.how = d, !.suspended = (d = "admitted" /\ p.suspended),
                                 !.author_bot = author_bot, !.watched = watched]
        /\ UNCHANGED <<tasks, typing, orphans, files>>
        /\ UNCHANGED stopVars
        /\ UNCHANGED cogVars

\* A message of a user, with a URL, in a watched channel: it reaches enqueue.
Enqueue(url) == EnqueueOf(FALSE, url, TRUE)

\* RepostCog.on_message for any message the gateway delivers, the bot's own
\* reposts included: it returns early or calls enqueue.
OnMessage(author_bot, match, watched) ==
    LET f == Filter(author_bot, match, watched) IN
    IF f = "enqueue"
       THEN EnqueueOf(author_bot, match, watched)
       ELSE /\ nextMsg <= MaxMessages
            /\ LoopFree
            /\ nextMsg' = nextMsg + 1
            /\ last' = [Quiet EXCEPT !.op = "ignored", !.message = nextMsg,
                                     !.url = match, !.how = f,
                                     !.author_bot = author_bot, !.watched = watched]
            /\ UNCHANGED <<typing, orphans, files>>
            /\ UNCHANGED pipeVars
            /\ UNCHANGED stopVars
            /\ UNCHANGED cogVars

\* ------------------------------------------------------------ start / stop

NewTasks_OneMore == [i \in 1..(WorkerCount + 1) |-> IdleTask]
\* for i in range(self.worker_count): asyncio.create_task(self._worker_loop(i))
NewTasks == [i \in 1..WorkerCount |-> IdleTask]

\* start() has no guard of its own; the model stops at MaxTasks tasks.
Start ==
    /\ Len(tasks) + WorkerCount <= MaxTasks
    /\ LoopFree
    /\ tasks' = tasks \o NewTasks
    /\ last' = Quiet
    /\ UNCHANGED <<queue, unfinished, active_urls, typing, orphans, files, nextMsg>>
    /\ UNCHANGED stopVars
    /\ UNCHANGED cogVars

StopTargets_IdleOnly == {w \in Workers : tasks[w].pc = "get"}
\* for task in self.tasks: task.cancel() (without effect on a task that ended)
StopTargets == {w \in Workers : tasks[w].pc # "done"}

\* task.cancel() for every task, then the wait in gather.
Stop ==
    /\ stopper = "none"
    /\ LoopFree
    /\ cancel' = cancel \cup StopTargets
    /\ gathered' = Len(tasks)
    /\ stopper' = "gathering"
    /\ last' = Quiet
    /\ UNCHANGED <<typing, orphans, files, nextMsg>>
    /\ UNCHANGED pipeVars
    /\ UNCHANGED cogVars

\* gather returns once every task it awaits has ended.
GatherDone ==
    /\ stopper = "gathering"
    /\ LoopFree
    /\ \A w \in 1..gathered : tasks[w].pc = "done"
    /\ stopper' = "returned"
    /\ last' = Quiet
    /\ UNCHANGED <<cancel, gathered, typing, orphans, files, nextMsg>>
    /\ UNCHANGED pipeVars
    /\ UNCHANGED cogVars

\* ------------------------------------------------------------ worker loop

Running_IgnoresCancel(w) == w \in Workers
\* A task resumes with the result of its await unless a cancellation is
\* pending, which is thrown into it instead.
Running(w) == w \in Workers /\ w \notin cancel

\* The finally block of _worker_loop after the job ended with exception exc
\* ("none" when _process_job returned), then, if the loop goes on, its next
\* queue.get(), which returns at once when a job is waiting.
FinishJob(w, how, exc, chat) ==
    LET job == tasks[w].job IN
    /\ active_urls' = Discard(active_urls, job.url)
    /\ unfinished' = TaskDone(unfinished)
    /\ last' = [Quiet EXCEPT !.op = "finish", !.worker = w, !.message = job.message,
                             !.url = job.url, !.how = how,
                             !.compressed = tasks[w].compressed, !.chat = chat]
    /\ IF Caught(exc) /\ queue # <<>>
          THEN /\ tasks' = [tasks EXCEPT ![w] = [IdleTask EXCEPT !.pc = "typing",
                                                                 !.job = QueueGet(queue).job]]
               /\ queue' = QueueGet(queue).queue
          ELSE /\ tasks' = [tasks EXCEPT ![w] =
                                [IdleTask EXCEPT !.pc = IF Caught(exc) THEN "get" ELSE "done"]]
               /\ queue' = queue

\* job = await self.queue.get() of an idle worker, up to the await that
\* enters the typing context.
Dequeue(w) ==
    /\ Running(w)
    /\ LoopFree
    /\ AwaitingGet(tasks[w])
    /\ queue # <<>>
    /\ tasks' = [tasks EXCEPT ![w] = [IdleTask EXCEPT !.pc = "typing",
                                                      !.job = QueueGet(queue).job]]
    /\ queue' = QueueGet(queue).queue
    /\ last' = Quiet
    /\ UNCHANGED <<unfinished, active_urls, typing, orphans, files, nextMsg>>
    /\ UNCHANGED stopVars
    /\ UNCHANGED cogVars

\* async with message.channel.typing(): the request that starts the
\* indicator succeeds, and the download goes to the executor, or it raises.
TypingEntered(w, ok) ==
    /\ Running(w)
    /\ LoopFree
    /\ tasks[w].pc = "typing"
    /\ IF ok
          THEN /\ typing' = typing \cup {w}
               /\ tasks' = [tasks EXCEPT ![w].pc = "download"]
               /\ last' = Quiet
               /\ UNCHANGED <<queue, unfinished, active_urls>>
          ELSE /\ typing' = typing
               /\ FinishJob(w, "typing_error", "Exception", tasks[w].chat)
    /\ UNCHANGED <<orphans, files, nextMsg>>
    /\ UNCHANGED stopVars
    /\ UNCHANGED cogVars

\* video = await loop.run_in_executor(None, self._download_video, url)
DownloadDone(w, dl) ==
    LET m == tasks[w].job.message
        r == DownloadVideo(dl)
    IN  /\ Running(w)
        /\ tasks[w].pc = "download"
        /\ files' = IF r.created THEN files \cup {RawFile(m)} ELSE files
        /\ IF r.video
              THEN /\ tasks' = [tasks EXCEPT ![w].pc = "compress"]
                   /\ last' = Quiet
                   /\ UNCHANGED <<queue, unfinished, active_urls, typing>>
              ELSE /\ typing' = TypingExit(typing, w)
                   /\ FinishJob(w, "download_failed", "none", tasks[w].chat)
        /\ UNCHANGED <<orphans, nextMsg>>
        /\ UNCHANGED stopVars
        /\ UNCHANGED cogVars

\* compressed = await loop.run_in_executor(None, self._compress_to_limit, video)
\* and the code up to await message.delete().
CompressDone(w, probe, out) ==
    LET m == tasks[w].job.message
        c == CompressToLimit(probe, out)
        made == IF c.created = NoFile THEN {} ELSE {CompressedFile(m, c.created)}
    IN  /\ Running(w)
        /\ tasks[w].pc = "compress"
        /\ typing' = TypingExit(typing, w)
        /\ IF c.raises
              THEN /\ files' = files
                   /\ FinishJob(w, c.why, "Exception", tasks[w].chat)
              ELSE /\ files' = UnlinkRaw(files \cup made, m)
                   /\ IF Abandoned(c.compressed)
                         THEN FinishJob(w, c.why, "none", tasks[w].chat)
                         ELSE /\ tasks' = [tasks EXCEPT ![w].pc = FirstPublishStep,
                                                        ![w].compressed = c.compressed]
                              /\ last' = Quiet
                              /\ UNCHANGED <<queue, unfinished, active_urls>>
        /\ UNCHANGED <<orphans, nextMsg>>
        /\ UNCHANGED stopVars
        /\ UNCHANGED cogVars

\* await message.delete() inside try/except Exception, up to the await of send.
DeleteDone(w, ok) ==
    /\ Running(w)
    /\ LoopFree
    /\ tasks[w].pc = "delete"
    /\ IF DeleteCaught(ok)
          THEN /\ tasks' = [tasks EXCEPT ![w].pc = "send",
                                         ![w].chat.deletes = @ + 1,
                                         ![w].chat.deleted = ok]
               /\ last' = Quiet
               /\ UNCHANGED <<queue, unfinished, active_urls>>
          ELSE FinishJob(w, "delete_error", "Exception",
                         [tasks[w].chat EXCEPT !.deletes = @ + 1, !.deleted = ok])
    /\ UNCHANGED <<typing, orphans, files, nextMsg>>
    /\ UNCHANGED stopVars
    /\ UNCHANGED cogVars

\* await message.channel.send(...), then compressed.unlink(missing_ok=True).
SendDone(w, ok) ==
    LET m == tasks[w].job.message
        chat == [tasks[w].chat EXCEPT !.sends = @ + 1, !.sent = ok]
    IN  /\ Running(w)
        /\ LoopFree
        /\ tasks[w].pc = "send"
        /\ IF ok
              THEN /\ files' = UnlinkCompressed(files, m, tasks[w].compressed)
                   /\ FinishJob(w, "sent", "none", chat)
              ELSE /\ files' = files
                   /\ FinishJob(w, "send_error", "Exception", chat)
        /\ UNCHANGED <<typing, orphans, nextMsg>>
        /\ UNCHANGED stopVars
        /\ UNCHANGED cogVars

\* The CancelledError of stop() reaches the task at the await it is suspended
\* in.  An executor call goes on without the coroutine; a request to the chat
\* platform may or may not have taken effect.
Cancelled(w, effect) ==
    LET pc == tasks[w].pc
        m == tasks[w].job.message
        c == tasks[w].chat
        chat == IF pc = "delete" THEN [c EXCEPT !.deletes = @ + 1, !.deleted = effect]
                ELSE IF pc = "send" THEN [c EXCEPT !.sends = @ + 1, !.sent = effect]
                ELSE c
    IN  /\ w \in Workers
        /\ w \in cancel
        /\ LoopFree
        /\ pc # "done"
        /\ effect \/ pc \in {"delete", "send"}
        /\ cancel' = cancel \ {w}
        /\ typing' = TypingExit(typing, w)
        /\ orphans' = IF pc \in {"download", "compress"}
                         THEN orphans \cup {[kind |-> pc, message |-> m]}
                         ELSE orphans
        /\ IF pc = "get"
              THEN /\ tasks' = [tasks EXCEPT ![w].pc = "done"]
                   /\ last' = Quiet
                   /\ UNCHANGED <<queue, unfinished, active_urls>>
              ELSE FinishJob(w, "cancelled", "CancelledError", chat)
        /\ UNCHANGED <<stopper, gathered, files, nextMsg>>
        /\ UNCHANGED cogVars

\* An executor call that lost its coroutine runs to its end in its thread.
OrphanDone(o, dl, probe, out) ==
    LET c == CompressToLimit(probe, out) IN
    /\ o \in orphans
    /\ orphans' = orphans \ {o}
    /\ files' = IF o.kind = "download"
                   THEN (IF DownloadVideo(dl).created
                            THEN files \cup {RawFile(o.message)} ELSE files)
                   ELSE (IF c.created # NoFile
                            THEN files \cup {CompressedFile(o.message, c.created)}
                            ELSE files)
    /\ last' = Quiet
    /\ UNCHANGED <<typing, nextMsg>>
    /\ UNCHANGED pipeVars
    /\ UNCHANGED stopVars
    /\ UNCHANGED cogVars

Next ==
    \/ \E url \in URLS : Enqueue(url)
    \/ Start
    \/ Stop
    \/ GatherDone
    \/ \E w \in Workers : Dequeue(w)
    \/ \E w \in Workers, ok \in BOOLEAN : TypingEntered(w, ok)
    \/ \E w \in Workers, dl \in DownloaderOutcomes : DownloadDone(w, dl)
    \/ \E w \in Workers, probe \in ProbeOutputs, out \in TranscodeOutputs :
          CompressDone(w, probe, out)
    \/ \E w \in Workers, ok \in BOOLEAN : DeleteDone(w, ok)
    \/ \E w \in Workers, ok \in BOOLEAN : SendDone(w, ok)
    \/ \E w \in Workers, effect \in BOOLEAN : Cancelled(w, effect)
    \/ \E o \in orphans, dl \in DownloaderOutcomes, probe \in ProbeOutputs,
          out \in TranscodeOutputs : OrphanDone(o, dl, probe, out)

Spec == Init /\ [][Next]_vars

\* The steps of worker w.
WorkerStep(w) ==
    \/ Dequeue(w)
    \/ \E ok \in BOOLEAN : TypingEntered(w, ok)
    \/ \E dl \in DownloaderOutcomes : DownloadDone(w, dl)
    \/ \E probe \in ProbeOutputs, out \in TranscodeOutputs : CompressDone(w, probe, out)
    \/ \E ok \in BOOLEAN : DeleteDone(w, ok)
    \/ \E ok \in BOOLEAN : SendDone(w, ok)

\* The bot as main.py runs it: the listener in front of the pipeline, and
\* stop() never called.
RunNext ==
    \/ \E author_bot \in BOOLEAN, match \in Matches, watched \in BOOLEAN :
          OnMessage(author_bot, match, watched)
    \/ Start
    \/ \E w \in Workers : WorkerStep(w)

RunSpec == Init /\ [][RunNext]_vars

\* The pipeline with stop() never called, fed with the messages that pass
\* the listener.
LiveNext ==
    \/ \E url \in URLS : Enqueue(url)
    \/ Start
    \/ \E w \in Workers : WorkerStep(w)

\* The event loop resumes every task whose await has completed, and every
\* external call returns or raises.
FairSpec == Init /\ [][LiveNext]_vars /\ \A w \in 1..MaxTasks : WF_vars(WorkerStep(w))

TypeOK ==
    /\ unfinished \in Int
    /\ active_urls \subseteq URLS
    /\ cancel \subseteq Workers
    /\ typing \subseteq Workers
    /\ \A w \in Workers :
          tasks[w].pc \in {"get", "typing", "download", "compress", "delete", "send", "done"}

\* ------------------------------------------------------------ AniListCog
\* src/chii/cogs/anilist_cog.py.  An action is the code between two awaits.

\* The id of the newest activity the API holds.
NewestActivity ==
    CHOOSE n \in 0..MaxActivity :
        /\ \A u \in Users : ani.feed[u].id <= n
        /\ n = 0 \/ \E u \in Users : ani.feed[u].id = n
\* The cycle record of a run_update_cycle that has returned or raised.
Returned(cy) == [IdleCycle EXCEPT !.sent = cy.sent]

\* run_update_cycle raised: nothing is saved, and an exception out of
\* normal_updates ends the tasks.loop.
Raised(c, cy) ==
    [ani EXCEPT !.cycles[c] = Returned(cy),
                !.stopped = @ \/ (c = "normal")]

\* Where the loop of run_update_cycle leaves the cog: at the final save_data,
\* suspended in build_embed for the user r.at, or raising.
AfterLoop(c, cy, r) ==
    CASE r.how = "done" ->
            [ani EXCEPT !.file = r.data, !.cycles[c] = Returned(cy)]
      [] r.how = "post" ->
            [ani EXCEPT !.cycles[c] =
                [cy EXCEPT !.pc = "fetch_user", !.data = r.data, !.at = r.at]]
      [] OTHER -> Raised(c, cy)

\* setup: the cog is constructed and normal_updates is started.
AniSetup ==
    /\ ~ani.setup
    /\ ani' = AniStart
    /\ UNCHANGED repostVars
    /\ rem' = rem

\* normal_updates fires or anilist_force is used: run_update_cycle up to the
\* first query.  found: bot.get_channel has the channel; kind: what it is.
CycleStart(c, found, kind) ==
    LET data == ani.file
        goes == /\ \E u \in Users : data.users[u].linked
                /\ data.channel_id # 0
                /\ found
                /\ is_messageable(kind)
    IN  /\ ani.setup
        /\ ani.loaded
        /\ ani.cycles[c].pc = "idle"
        /\ ani.started < MaxCycles
        /\ (c = "normal") => ~ani.stopped
        /\ ani' = [ani EXCEPT
                !.started = @ + 1,
                !.overlap = ani.cycles[OtherCycler(c)].pc # "idle",
                !.cycles[c] = IF goes
                                 THEN [IdleCycle EXCEPT !.pc = "users", !.data = data]
                                 ELSE IdleCycle]
        /\ UNCHANGED repostVars
        /\ rem' = rem

\* fetch_activity_batch: the query for the users' ids returns.  ok: it
\* returned ids.  (The session is closed once the cog is unloaded.)
UsersReturned(c, ok) ==
    LET cy == ani.cycles[c] IN
    /\ ani.setup
    /\ cy.pc = "users"
    /\ ok => ani.loaded
    /\ ani' = [ani EXCEPT !.cycles[c] =
                  IF ok THEN [cy EXCEPT !.pc = "activities"] ELSE Returned(cy)]
    /\ UNCHANGED repostVars
    /\ rem' = rem

\* fetch_activity_batch: the query for the activities returns, and the loop
\* of run_update_cycle runs up to its first await.
ActivitiesReturned(c, ok) ==
    LET cy == ani.cycles[c]
        batch == [u \in Users |-> IF cy.data.users[u].linked
                                     THEN ani.feed[u] ELSE NoActivity]
    IN  /\ ani.setup
        /\ cy.pc = "activities"
        /\ ok => ani.loaded
        /\ ani' = IF ok
                     THEN AfterLoop(c, [cy EXCEPT !.batch = batch],
                                    RunLoop(cy.data, batch, 1))
                     ELSE [ani EXCEPT !.cycles[c] = Returned(cy)]
        /\ UNCHANGED repostVars
        /\ rem' = rem

\* build_embed: bot.fetch_user returns or raises; send_update starts.
FetchUserDone(c, ok) ==
    LET cy == ani.cycles[c] IN
    /\ ani.setup
    /\ cy.pc = "fetch_user"
    /\ ani' = IF ~ok THEN Raised(c, cy)
              ELSE [ani EXCEPT !.cycles[c].pc =
                       IF cy.data.users[cy.at].last_message_id # 0
                          THEN "delete_old" ELSE "send"]
    /\ UNCHANGED repostVars
    /\ rem' = rem

\* send_update: the delete of the previous notification returns (its
\* exceptions are suppressed).
DeleteOldDone(c) ==
    /\ ani.setup
    /\ ani.cycles[c].pc = "delete_old"
    /\ ani' = [ani EXCEPT !.cycles[c].pc = "send"]
    /\ UNCHANGED repostVars
    /\ rem' = rem

\* send_update: channel.send returns or raises; the loop goes on.
SendUpdateDone(c, ok) ==
    LET cy == ani.cycles[c]
        cy2 == [cy EXCEPT !.sent[cy.at] = cy.batch[cy.at].id]
        d == [cy.data EXCEPT !.users[cy.at].last_message_id = 1]
    IN  /\ ani.setup
        /\ cy.pc = "send"
        /\ ani' = IF ok THEN AfterLoop(c, cy2, RunLoop(d, cy.batch, cy.at + 1))
                        ELSE Raised(c, cy)
        /\ UNCHANGED repostVars
        /\ rem' = rem

\* anilist_link, from its load to its save, for a member not linked yet
AnilistLink(u) ==
    /\ ani.setup
    /\ ani.loaded
    /\ ~ani.file.users[u].linked
    /\ ani' = [ani EXCEPT !.file.users[u] = Linked]
    /\ UNCHANGED repostVars
    /\ rem' = rem

\* anilist_channel
AnilistChannel(ch) ==
    /\ ani.setup
    /\ ani.loaded
    /\ ani' = [ani EXCEPT !.file.channel_id = ch]
    /\ UNCHANGED repostVars
    /\ rem' = rem

\* A user does something on AniList: the API has a newer activity for them.
\* AniList numbers the activities of all its users in one sequence.
NewActivity(u, status, progress) ==
    /\ ani.setup
    /\ NewestActivity < MaxActivity
    /\ ani' = [ani EXCEPT !.feed[u] = [id |-> NewestActivity + 1,
                                       status |-> status,
                                       progress |-> progress]]
    /\ UNCHANGED repostVars
    /\ rem' = rem

\* AniListCog.cog_unload: the loop is cancelled where it is suspended and
\* the session is closed.
AniCogUnload ==
    /\ ani.setup
    /\ ani.loaded
    /\ ani' = [ani EXCEPT !.loaded = FALSE,
                          !.stopped = TRUE,
                          !.cycles["normal"] = Returned(ani.cycles["normal"])]
    /\ UNCHANGED repostVars
    /\ rem' = rem

AniNext ==
    \/ AniSetup
    \/ \E c \in Cyclers, found \in BOOLEAN, kind \in ChannelKinds :
           CycleStart(c, found, kind)
    \/ \E c \in Cyclers, ok \in BOOLEAN : UsersReturned(c, ok)
    \/ \E c \in Cyclers, ok \in BOOLEAN : ActivitiesReturned(c, ok)
    \/ \E c \in Cyclers, ok \in BOOLEAN : FetchUserDone(c, ok)
    \/ \E c \in Cyclers : DeleteOldDone(c)
    \/ \E c \in Cyclers, ok \in BOOLEAN : SendUpdateDone(c, ok)
    \/ \E u \in Users : AnilistLink(u)
    \/ \E ch \in Channels : AnilistChannel(ch)
    \/ \E u \in Users, status \in Statuses, progress \in 0..MaxProgress :
           NewActivity(u, status, progress)
    \/ AniCogUnload

AniSpec == Init /\ [][AniNext]_vars

\* ------------------------------------------------------------ ReminderCog
\* src/chii/cogs/reminder_cog.py.  pc[r] is "new" for a created task that has
\* not run yet, "sleep", "fetch" or "send" for the await it is suspended in,
\* and otherwise how it ended.  reminder_cancel and reminder_edit index
\* self.reminders with an int while the ids are strings: they raise KeyError
\* before they change anything and are no transitions.

Live == {"new", "sleep", "fetch", "send"}

\* _worker_task from the channel it has in hand: the test at line 222, then
\* the await of channel.send.
WithChannel(r, kind) ==
    [rem EXCEPT !.pc[r] = IF is_messageable(kind) THEN "send" ELSE "not_messageable"]

\* setup: the cog is constructed; _initialize_scheduler finds no reminders
\* file and creates an empty one.
RemSetup ==
    /\ ~rem.setup
    /\ rem' = RemStart
    /\ UNCHANGED repostVars
    /\ ani' = ani

\* reminder_set with a valid time and message, used in a guild channel: the
\* reminder is stored and saved, and _schedule_reminder creates its task.
ReminderSet(place) ==
    LET r == rem.made + 1
        reminders == rem.reminders \cup {r}
    IN  /\ rem.setup
        /\ rem.loaded
        /\ rem.made < MaxReminders
        /\ is_guild_channel(place)
        /\ rem' = [rem EXCEPT !.made = r,
                              !.reminders = reminders,
                              !.file = reminders,
                              !.tasks = @ \cup {r},
                              !.pc[r] = "new"]
        /\ UNCHANGED repostVars
        /\ ani' = ani

\* _worker_task starts: it reads its reminder and sleeps until the trigger.
WorkerStart(r) ==
    /\ rem.setup
    /\ rem.pc[r] = "new"
    /\ rem' = [rem EXCEPT !.pc[r] = "sleep"]
    /\ UNCHANGED repostVars
    /\ ani' = ani

\* The sleep is over: bot.get_channel.  cached: the channel is in the cache.
Wake(r, cached, kind) ==
    /\ rem.setup
    /\ rem.pc[r] = "sleep"
    /\ rem' = IF cached THEN WithChannel(r, kind)
                        ELSE [rem EXCEPT !.pc[r] = "fetch"]
    /\ UNCHANGED repostVars
    /\ ani' = ani

\* bot.fetch_channel returns or raises; when it raises the task returns at
\* line 217.
FetchChannelDone(r, ok, kind) ==
    /\ rem.setup
    /\ rem.pc[r] = "fetch"
    /\ rem' = IF ok THEN WithChannel(r, kind)
                    ELSE [rem EXCEPT !.pc[r] = "fetch_failed"]
    /\ UNCHANGED repostVars
    /\ ani' = ani

\* channel.send returns or raises: the reminder leaves both maps and the
\* file is saved.
ReminderSendDone(r, ok) ==
    LET reminders == rem.reminders \ {r} IN
    /\ rem.setup
    /\ rem.pc[r] = "send"
    /\ rem' = [rem EXCEPT !.pc[r] = IF ok THEN "sent" ELSE "send_failed",
                          !.reminders = reminders,
                          !.tasks = @ \ {r},
                          !.file = reminders]
    /\ UNCHANGED repostVars
    /\ ani' = ani

\* ReminderCog.cog_unload: every task in self.tasks is cancelled at its await
\* and the map is cleared.
RemCogUnload ==
    /\ rem.setup
    /\ rem.loaded
    /\ rem' = [rem EXCEPT
            !.loaded = FALSE,
            !.tasks = {},
            !.pc = [r \in ReminderIds |->
                       IF r \in rem.tasks /\ rem.pc[r] \in Live
                          THEN "cancelled" ELSE rem.pc[r]]]
    /\ UNCHANGED repostVars
    /\ ani' = ani

RemNext ==
    \/ RemSetup
    \/ \E place \in Places : ReminderSet(place)
    \/ \E r \in ReminderIds : WorkerStart(r)
    \/ \E r \in ReminderIds, cached \in BOOLEAN, kind \in ChannelKinds :
           Wake(r, cached, kind)
    \/ \E r \in ReminderIds, ok \in BOOLEAN, kind \in ChannelKinds :
           FetchChannelDone(r, ok, kind)
    \/ \E r \in ReminderIds, ok \in BOOLEAN : ReminderSendDone(r, ok)
    \/ RemCogUnload

RemSpec == Init /\ [][RemNext]_vars

\* ------------------------------------------------------------ properties

InQueue(u) == Cardinality({i \in 1..Len(queue) : queue[i].url = u})
Held(u) == Cardinality({w \in Workers : tasks[w].job.url = u})
Processing == {w \in Workers : tasks[w].job # NoJob}
FilesOf(m) == {f \in files : f.message = m}
Enqueued == last.op = "enqueue"
Finished == last.op = "finish"
ExceptionOutcomes == {"typing_error", "probe_error", "send_error"}

\* C1: for every URL, the jobs carrying it that wait in the queue plus those
\* held by workers are at most one, whatever enqueue calls and worker steps
\* came before.
C1_Dedup == \A u \in URLS : InQueue(u) + Held(u) <= 1

\* C1 witness: the same URL was enqueued again while its job still waits in
\* the queue, and the queue holds one entry for it.
C1_Witness == Enqueued /\ last.how = "duplicate" /\ InQueue(last.url) = 1

\* C2: a URL is in active_urls exactly when a job carrying it is in the queue
\* or held by a worker.
C2_Membership == \A u \in URLS : (u \in active_urls) <=> (InQueue(u) + Held(u) >= 1)

\* C2 witness: a job ended by cancellation and its URL left the set while
\* another job's URL is still in it.
C2_Witness == Finished /\ last.how = "cancelled" /\ last.url \notin active_urls
              /\ active_urls # {}

\* C3: the queue never holds more than max_queue_size jobs, and an enqueue
\* call made while it holds max_queue_size leaves it as it was.
C3_BoundedQueue ==
    [][/\ Len(queue') <= MaxQueueSize
       /\ (last'.op = "enqueue" /\ Len(queue) >= MaxQueueSize) => queue' = queue]_vars

\* C3 witness: the queue is at capacity and the job of a further URL was
\* dropped: it is not in the queue.
C3_Witness == /\ Enqueued /\ last.how = "full"
              /\ Len(queue) = MaxQueueSize
              /\ \A i \in 1..Len(queue) : queue[i].url # last.url

\* C4: an enqueue call of a URL not in active_urls leaves active_urls and the
\* queue unchanged when the queue is at capacity, and otherwise adds the URL
\* and appends the job.
C4_NoMembershipLeak ==
    [][(last'.op = "enqueue" /\ last'.url \notin active_urls) =>
          IF Len(queue) >= MaxQueueSize
             THEN active_urls' = active_urls /\ queue' = queue
             ELSE /\ active_urls' = active_urls \cup {last'.url}
                  /\ queue' = Append(queue, [message |-> last'.message, url |-> last'.url])]_vars

\* C4 witness: a job was dropped for a full queue and its URL is not in
\* active_urls, which holds the URLs of the queued jobs.
C4_Witness == /\ Enqueued /\ last.how = "full"
              /\ last.url \notin active_urls
              /\ Cardinality(active_urls) >= MaxQueueSize

\* C5: no call of enqueue reaches put with a full queue, so none is suspended.
C5_NeverSuspended == ~last.suspended

\* C5 witness: an enqueue call put its job into the last free slot.
C5_Witness == Enqueued /\ last.how = "admitted" /\ Len(queue) = MaxQueueSize

\* C6: after a job ended with an exception its worker has not ended: it waits
\* for the queue, which is then empty, or it holds the next job.
C6_WorkerResilience ==
    (Finished /\ last.how \in ExceptionOutcomes) =>
        LET t == tasks[last.worker] IN
        /\ t.pc \in {"get", "typing"}
        /\ t.pc = "get" => (queue = <<>> /\ t.job = NoJob)
        /\ t.pc = "typing" => (t.job # NoJob /\ t.job.message # last.message)

\* C6 witness: the probe failed in one job and the same worker holds the next.
C6_Witness == Finished /\ last.how = "probe_error" /\ tasks[last.worker].pc = "typing"

\* C7: the items put and not yet marked done are those in the queue and those
\* held by workers, and the URL of a job that just ended is out of active_urls.
C7_DoneOnce ==
    /\ unfinished = Len(queue) + Cardinality(Processing)
    /\ Finished => last.url \notin active_urls

\* C7 witness: a job ended with a failed send and its worker dequeued again.
C7_Witness == Finished /\ last.how = "send_error" /\ tasks[last.worker].pc = "typing"

\* C8: when the queue is empty and every worker waits for it, the temp
\* directory holds no file.
Quiescent == /\ Len(tasks) >= 1
             /\ queue = <<>>
             /\ \A w \in Workers : tasks[w].pc = "get"
C8_CleanWhenQuiescent == Quiescent => files = {}

\* C9: a job whose probe output does not parse ends with its raw file
\* deleted, no compressed file and no message sent.
C9_ProbeFailureCleans ==
    (Finished /\ last.how = "probe_error") =>
        (FilesOf(last.message) = {} /\ last.chat.sends = 0)

\* C10: a job whose compressed file is larger than the ceiling ends with
\* neither temp file left and no message sent.
C10_OversizeCleans ==
    (Finished /\ last.how = "compress_oversize") =>
        (FilesOf(last.message) = {} /\ last.chat.sends = 0)

\* C11: a job whose compression stage returned, with a file or with none, has
\* no raw file left: neither while it publishes nor when it is abandoned.
C11_RawFileCleanup ==
    /\ \A w \in Workers :
          tasks[w].pc \in {"delete", "send"} => RawFile(tasks[w].job.message) \notin files
    /\ (Finished /\ last.how \in {"compress_missing", "compress_oversize", "sent", "send_error"})
          => RawFile(last.message) \notin files

\* C11 witness: a job was abandoned for a missing compressed file and its raw
\* file is gone.
C11_Witness == Finished /\ last.how = "compress_missing" /\ RawFile(last.message) \notin files

\* C12: a job whose compression succeeded has no compressed file left after
\* its send, whether the send returned or raised.
C12_CompressedCleanup ==
    (Finished /\ last.how \in {"sent", "send_error"}) =>
        ~(\E f \in files : f.kind = "compressed" /\ f.message = last.message)

\* C13: the file a job publishes exists and has at most max_bytes bytes, and a
\* job whose compressed file is larger ends without a send.
C13_SizeCeiling ==
    /\ \A w \in Workers :
          tasks[w].pc \in {"delete", "send"} =>
              /\ tasks[w].compressed # NoFile
              /\ tasks[w].compressed <= REPOSTS_MAX_SIZE_MB * 1024 * 1024
              /\ CompressedFile(tasks[w].job.message, tasks[w].compressed) \in files
    /\ (Finished /\ last.chat.sends > 0) =>
          (last.compressed # NoFile /\ last.compressed <= REPOSTS_MAX_SIZE_MB * 1024 * 1024)
    /\ (Finished /\ last.how = "compress_oversize") =>
          (last.compressed = NoFile /\ last.chat.sends = 0)

\* C13 witness: a worker is sending a file of exactly max_bytes bytes.
C13_Witness ==
    \E w \in Workers : /\ tasks[w].pc = "send"
                       /\ tasks[w].compressed = REPOSTS_MAX_SIZE_MB * 1024 * 1024

\* C14: a job that ends with its repost sent has called message.delete() once
\* and channel.send() once, and the delete call came first: nothing was
\* called before the delete is awaited, and only the delete before the send.
C14_PublishOnce ==
    /\ \A w \in Workers :
          /\ tasks[w].pc = "delete" => tasks[w].chat = NoChat
          /\ tasks[w].pc = "send" =>
                (tasks[w].chat.deletes = 1 /\ tasks[w].chat.sends = 0 /\ ~tasks[w].chat.sent)
    /\ (Finished /\ last.how = "sent") =>
          (last.chat.deletes = 1 /\ last.chat.sends = 1 /\ last.chat.sent)

\* C14 witness: a job ended with the original message deleted and the repost sent.
C14_Witness == Finished /\ last.how = "sent" /\ last.chat.deleted /\ last.chat.sent

\* C15: a job whose message.delete() raised goes on to the send, and when the
\* send returns the compressed file is deleted.
C15_DeleteFailureNonFatal ==
    /\ \A w \in Workers :
          (tasks[w].chat.deletes = 1 /\ ~tasks[w].chat.deleted) => tasks[w].pc = "send"
    /\ (Finished /\ last.how # "cancelled" /\ last.chat.deletes = 1 /\ ~last.chat.deleted) =>
          /\ last.chat.sends = 1
          /\ last.how = "sent" => FilesOf(last.message) = {}

\* C15 witness: the delete failed, the repost was sent and no temp file is left.
C15_Witness ==
    /\ Finished /\ last.how = "sent"
    /\ last.chat.deletes = 1 /\ ~last.chat.deleted
    /\ last.chat.sent /\ FilesOf(last.message) = {}

\* C16: a job that ends without a compressed file, as one that failed at
\* download, probe or compression does, has called neither message.delete()
\* nor channel.send().
C16_SilentFailure ==
    /\ (Finished /\ last.how \in {"download_failed", "probe_error",
                                  "compress_missing", "compress_oversize"}) =>
          last.compressed = NoFile
    /\ (Finished /\ last.compressed = NoFile) => last.chat = NoChat

\* C16 witness: a job ended with a failed download and did nothing on the
\* chat platform.
C16_Witness == Finished /\ last.how = "download_failed" /\ last.chat = NoChat

\* C17: every call of start adds exactly worker_count idle worker loops to
\* self.tasks and leaves the loops already there as they are.
C17_StartSpawns ==
    [][Len(tasks') # Len(tasks) =>
          /\ Len(tasks') = Len(tasks) + WorkerCount
          /\ \A i \in 1..Len(tasks) : tasks'[i] = tasks[i]
          /\ \A i \in (Len(tasks) + 1)..Len(tasks') : tasks'[i] = IdleTask]_vars

\* C17 witness: after two calls of start 2 * worker_count loops run, and each
\* holds a job taken from the one queue.
C17_Witness == /\ Len(tasks) = 2 * WorkerCount
               /\ \A w \in Workers : tasks[w].job # NoJob

\* C18: while stop waits, every loop it was called on has ended or has its
\* cancellation pending; once stop has returned every one of them has ended
\* and holds no job.
C18_StopTerminates ==
    /\ stopper = "gathering" =>
          \A w \in 1..gathered : tasks[w].pc = "done" \/ w \in cancel
    /\ stopper = "returned" =>
          \A w \in 1..gathered : tasks[w].pc = "done" /\ tasks[w].job = NoJob

\* C18 witness: stop returned after ending two loops, one of them in the
\* middle of an executor call, and a job is still in the queue.
C18_Witness == /\ stopper = "returned"
               /\ gathered = 2
               /\ orphans # {}
               /\ queue # <<>>

\* C19 as claimed: cancellation never interrupts a step in progress, so no
\* executor call is ever left running without its worker.
C19_NeverInterrupts == orphans = {}

\* C19 amended: a worker with a pending cancellation takes no step but its
\* last: it ends at the await it is suspended in, and a download or
\* compression in flight is left running in its executor thread.
C19_CancelInterrupts ==
    [][\A w \in Workers :
          (w \in cancel /\ tasks[w].pc # "done") =>
              \/ tasks'[w] = tasks[w]
              \/ /\ tasks'[w].pc = "done"
                 /\ tasks[w].pc \in {"download", "compress"} =>
                       [kind |-> tasks[w].pc, message |-> tasks[w].job.message] \in orphans']_vars

\* C19 witness: a job ended by cancellation while its executor call goes on.
C19_Witness == /\ Finished /\ last.how = "cancelled"
               /\ \E o \in orphans : o.message = last.message

\* C20: an enqueue call for a URL whose job is queued or held by a worker
\* changes nothing; one for a URL with no such job, made with space in the
\* queue, appends the job.
C20_Readmission ==
    [][last'.op = "enqueue" =>
          IF InQueue(last'.url) + Held(last'.url) >= 1
             THEN queue' = queue /\ active_urls' = active_urls
             ELSE Len(queue) < MaxQueueSize =>
                     queue' = Append(queue, [message |-> last'.message, url |-> last'.url])]_vars

\* C20 witness: a job just ended with its repost sent, its URL is out of the
\* set, and the queue has space for the next message, which may carry it.
C20_Witness == /\ Finished /\ last.how = "sent"
               /\ last.url \notin active_urls
               /\ InQueue(last.url) + Held(last.url) = 0
               /\ Len(queue) < MaxQueueSize
               /\ nextMsg <= MaxMessages

\* ------------------------------------------------------------ C21..C30

InQueueMsg(m) == Cardinality({i \in 1..Len(queue) : queue[i].message = m})
HeldMsg(m) == Cardinality({w \in Workers : tasks[w].job.message = m})
QueuedUrls == {queue[i].url : i \in 1..Len(queue)}
InExternalCall == {w \in Workers : tasks[w].pc \in {"download", "compress"}}

\* C21: every admitted job is in one place at a time: in the queue once, or
\* held by one worker, and a job that has ended is in neither; the jobs
\* around are those of messages that reached enqueue.
C21_ConsumedOnce ==
    /\ \A m \in MESSAGES : InQueueMsg(m) + HeldMsg(m) <= 1
    /\ \A m \in MESSAGES : (InQueueMsg(m) + HeldMsg(m) = 1) => m < nextMsg
    /\ Finished => InQueueMsg(last.message) + HeldMsg(last.message) = 0

\* C21 witness: a worker ended one job and took the next from the queue while
\* another worker holds a third.
C21_Witness ==
    /\ Finished /\ last.how = "sent"
    /\ tasks[last.worker].job # NoJob
    /\ \E w \in Processing : w # last.worker

\* C22: the jobs taken from the queue and not yet marked done are one per
\* busy worker, so never more than there are loops, and never more than
\* worker_count after a single start.
C22_OneJobPerWorker ==
    /\ unfinished - Len(queue) = Cardinality(Processing)
    /\ unfinished - Len(queue) <= Len(tasks)
    /\ Len(tasks) = WorkerCount => unfinished - Len(queue) <= WorkerCount

\* C22 witness: after one start every worker is busy and the queue is full.
C22_Witness ==
    /\ Len(tasks) = WorkerCount
    /\ Cardinality(Processing) = WorkerCount
    /\ Len(queue) = MaxQueueSize

\* C23: the URL of every job in the queue and of every job held by a worker
\* is in active_urls.
C23_AddBeforePut ==
    /\ \A i \in 1..Len(queue) : queue[i].url \in active_urls
    /\ \A w \in Processing : tasks[w].job.url \in active_urls

\* C23 witness: enqueue just admitted a job: it is the newest of the queue,
\* its URL is in the set, and a worker is busy with an earlier job.
C23_Witness ==
    /\ Enqueued /\ last.how = "admitted"
    /\ queue # <<>>
    /\ queue[Len(queue)] = [message |-> last.message, url |-> last.url]
    /\ last.url \in active_urls
    /\ Processing # {}

\* C24: the queue holds its jobs in the order of their admission, and every
\* job a worker holds was admitted before every job still in the queue.
C24_Fifo ==
    /\ \A i, j \in 1..Len(queue) : i < j => queue[i].message < queue[j].message
    /\ \A w \in Processing : \A i \in 1..Len(queue) :
          tasks[w].job.message < queue[i].message

\* C24 witness: a job ended while a job admitted before it is still in the
\* hands of another worker.
C24_Witness ==
    /\ Finished
    /\ \E w \in Processing : w # last.worker /\ tasks[w].job.message < last.message

\* C25: while a worker is suspended in its download or its compression, a
\* message can still reach enqueue and every worker waiting for the queue can
\* take a job that is there.
C25_LoopNotBlocked ==
    InExternalCall # {} =>
        /\ nextMsg <= MaxMessages => \A u \in URLS : ENABLED Enqueue(u)
        /\ \A v \in Workers :
              (tasks[v].pc = "get" /\ v \notin cancel /\ queue # <<>>) => ENABLED Dequeue(v)

\* C25 witness: one worker compresses while another waits for the queue,
\* which holds a job, and a further message is to come.
C25_Witness ==
    /\ \E w \in Workers : tasks[w].pc = "compress"
    /\ \E v \in Workers : tasks[v].pc = "get" /\ v \notin cancel
    /\ queue # <<>>
    /\ nextMsg <= MaxMessages

\* C26: a worker holds the typing indicator exactly while it is in its
\* download or its compression.
C26_TypingScope ==
    \A w \in Workers : (w \in typing) <=> (tasks[w].pc \in {"download", "compress"})

\* C26 witness: a worker was cancelled in an executor call and no longer
\* holds the indicator, while another worker still holds it.
C26_Witness ==
    /\ Finished /\ last.how = "cancelled"
    /\ \E o \in orphans : o.message = last.message
    /\ last.worker \notin typing
    /\ typing # {}

\* C27: active_urls has as many members as there are jobs in the queue and
\* jobs held by workers, so at most max_queue_size plus the number of loops.
C27_Cardinality ==
    /\ Cardinality(active_urls) = Len(queue) + Cardinality(Processing)
    /\ Cardinality(active_urls) <= MaxQueueSize + Len(tasks)

\* C27 witness: the queue is full and every worker is busy: the set has
\* max_queue_size plus the number of loops members.
C27_Witness ==
    /\ Len(tasks) >= 1
    /\ Cardinality(active_urls) = MaxQueueSize + Len(tasks)

\* C28: once stop has returned, and no loop was started since it was called,
\* active_urls is the set of the URLs of the queued jobs, every item put and
\* not marked done is in the queue, and an enqueue call for the URL of a job
\* queued before the call is rejected as a duplicate.
C28_StateAfterStop ==
    (stopper = "returned" /\ Len(tasks) = gathered) =>
        /\ active_urls = QueuedUrls
        /\ unfinished = Len(queue)
        /\ (Enqueued /\ \E i \in 1..Len(queue) :
                            queue[i].url = last.url /\ queue[i].message # last.message)
              => last.how = "duplicate"

\* C28 witness: stop returned after cancelling a job in its executor call, a
\* job is left in the queue, and a message with its URL was just rejected.
C28_Witness ==
    /\ stopper = "returned" /\ Len(tasks) = gathered
    /\ orphans # {}
    /\ Enqueued /\ last.how = "duplicate"
    /\ last.url \in QueuedUrls

\* C29: with a worker loop started and stop never called, every job in the
\* queue is eventually held by a worker and every URL in active_urls
\* eventually leaves it.
C29_Progress ==
    /\ \A m \in MESSAGES :
          (Len(tasks) >= 1 /\ InQueueMsg(m) = 1) ~> (HeldMsg(m) = 1)
    /\ \A u \in URLS :
          (Len(tasks) >= 1 /\ u \in active_urls) ~> (u \notin active_urls)

\* C29 witness: the last message's job has ended, after waiting its turn,
\* and nothing is left in the queue, in the set or with a worker.
C29_Witness ==
    /\ Finished /\ last.message = MaxMessages
    /\ queue = <<>> /\ active_urls = {} /\ Processing = {}

\* C30: a message reaches enqueue only if its author is no bot, the pattern
\* found a URL in it and its channel is watched; a message that does not is
\* ignored, and a step that ignores a message changes nothing in the pipeline.
C30_SourceFilter ==
    [][/\ last'.op = "enqueue" =>
             (~last'.author_bot /\ last'.url \in URLS /\ last'.watched)
       /\ last'.op = "ignored" =>
             /\ last'.author_bot \/ last'.url = NoMatch \/ ~last'.watched
             /\ UNCHANGED <<queue, unfinished, active_urls, tasks>>]_vars

\* C30 witness: the bot's repost of a URL came back to the listener in the
\* watched channel and was ignored, while its job has ended and the queue
\* has space: a user's message with this URL would be admitted.
C30_Witness ==
    /\ last.op = "ignored" /\ last.author_bot /\ last.watched
    /\ last.url \in URLS /\ last.url \notin active_urls
    /\ Len(queue) < MaxQueueSize
    /\ last.message >= 2 /\ Len(tasks) >= 1

\* C31: a job that ended with its original message deleted has called
\* channel.send(), whatever ended it.
C31_NoMessageLoss ==
    (Finished /\ last.chat.deleted) => last.chat.sends = 1

\* ------------------------------------------------------------ C32..C34

\* C32: when a run_update_cycle finishes, every user link and the
\* notification channel that the data file held just before are still in it:
\* what anilist_link or anilist_channel saved while the cycle was suspended
\* survives the cycle's final save.
C32_NoLostUpdate ==
    [][ani.setup =>
          \A c \in Cyclers :
              (ani.cycles[c].pc # "idle" /\ ani'.cycles[c].pc = "idle")
                  => /\ ani'.file.channel_id = ani.file.channel_id
                     /\ \A u \in Users :
                            ani.file.users[u].linked => ani'.file.users[u].linked]_vars

\* C33: two update cycles that overlap never both post the same activity id
\* of a user.
C33_NoDuplicate ==
    (ani.setup /\ ani.overlap) =>
        \A u \in Users :
            ani.cycles["normal"].sent[u] # 0
                => ani.cycles["force"].sent[u] # ani.cycles["normal"].sent[u]

\* C34: a reminder whose worker task has ended without being cancelled (sent,
\* send failed, channel fetch failed, channel not messageable) is in neither
\* self.reminders nor self.tasks.
C34_ReminderCompletion ==
    rem.setup =>
        \A r \in ReminderIds :
            rem.pc[r] \in {"sent", "send_failed", "fetch_failed", "not_messageable"}
                => r \notin rem.reminders /\ r \notin rem.tasks

====
